---- MODULE Spec2Model ----
(***************************************************************************)
(* The BMP280 driver of bmp280/bmp280.py as a state machine: the driver    *)
(* object (twelve calibration coefficients, t_fine), the call in progress  *)
(* (a stack of frames whose pc is the source line of the next statement),  *)
(* the transport operations it issues, and the device behind the transport *)
(* (register pointer, control and config registers, calibration block,     *)
(* data registers refreshed by the device's own sampling).                 *)
(***************************************************************************)
EXTENDS Integers, Sequences, FiniteSets, TLC

(***************************************************************************)
(* Register map and codes, bmp280.py lines 11-60.                          *)
(***************************************************************************)
BMP280_I2C_ADDR == 118
CALIB == 136
ID == 208
RESET == 224
STATUS == 243
CTRL_MEAS == 244
CONFIG == 245
PRESS_MSB == 247
TEMP_MSB == 250
CHIP_ID == 88
RESET_CODE == 182
OSRS_T_X1 == 1
OSRS_P_X1 == 1
SLEEP_MODE == 0
FORCED_MODE == 1
NORMAL_MODE == 3
T_SB_05 == 0
FILTER_OFF == 0

(***************************************************************************)
(* Bounds of the model.                                                    *)
(***************************************************************************)
\* The device takes at most MaxSample samples in one behaviour.
MaxSample == 2

(***************************************************************************)
(* Python values.  An attribute or local that holds None is the empty      *)
(* sequence; one that holds v is <<v>>.                                    *)
(***************************************************************************)
None == <<>>
Some(v) == <<v>>
Val(x) == x[1]

\* int(b) of a bool
BoolToInt(b) == IF b THEN 1 ELSE 0

\* a >> n and a << n on non-negative machine-sized integers
Shr(a, n) == a \div (2 ^ n)
Shl(a, n) == a * (2 ^ n)

\* a & b and a | b on non-negative integers, bit by bit
RECURSIVE BitAnd(_, _)
BitAnd(a, b) ==
  IF a = 0 \/ b = 0 THEN 0
  ELSE (IF a % 2 = 1 /\ b % 2 = 1 THEN 1 ELSE 0) + 2 * BitAnd(a \div 2, b \div 2)

RECURSIVE BitOr(_, _)
BitOr(a, b) ==
  IF a = 0 THEN b
  ELSE IF b = 0 THEN a
  ELSE (IF a % 2 = 1 \/ b % 2 = 1 THEN 1 ELSE 0) + 2 * BitOr(a \div 2, b \div 2)

\* int.from_bytes(b, byteorder='big')
RECURSIVE FromBytesBig(_)
FromBytesBig(b) ==
  IF b = <<>> THEN 0
  ELSE b[Len(b)] + 256 * FromBytesBig(SubSeq(b, 1, Len(b) - 1))

\* int.from_bytes(b, byteorder='little', signed=False) of two bytes
FromBytesLittleU16(b) == b[1] + 256 * b[2]

\* int.from_bytes(b, byteorder='little', signed=True) of two bytes
FromBytesLittleS16(b) ==
  LET u == b[1] + 256 * b[2] IN IF u >= 32768 THEN u - 65536 ELSE u

(***************************************************************************)
(* Python's unbounded integers.  The compensation formulas pass 2^31, so   *)
(* an integer is a sign and a magnitude of limbs in base 2^15, least       *)
(* significant first, without leading zero limbs (zero is <<>>).           *)
(***************************************************************************)
LimbBits == 15
Base == 2 ^ LimbBits

RECURSIVE MagNorm(_)
MagNorm(m) ==
  IF m = <<>> THEN <<>>
  ELSE IF m[Len(m)] = 0 THEN MagNorm(SubSeq(m, 1, Len(m) - 1))
  ELSE m

RECURSIVE MagOfNat(_)
MagOfNat(n) == IF n = 0 THEN <<>> ELSE <<n % Base>> \o MagOfNat(n \div Base)

RECURSIVE MagAddC(_, _, _)
MagAddC(a, b, c) ==
  IF a = <<>> /\ b = <<>> THEN (IF c = 0 THEN <<>> ELSE <<c>>)
  ELSE LET x == IF a = <<>> THEN 0 ELSE Head(a)
           y == IF b = <<>> THEN 0 ELSE Head(b)
           s == x + y + c
       IN <<s % Base>> \o MagAddC(IF a = <<>> THEN <<>> ELSE Tail(a),
                                  IF b = <<>> THEN <<>> ELSE Tail(b),
                                  s \div Base)

MagAdd(a, b) == MagAddC(a, b, 0)

\* a - b for a >= b, before normalisation
RECURSIVE MagSubB(_, _, _)
MagSubB(a, b, br) ==
  IF a = <<>> THEN <<>>
  ELSE LET y == IF b = <<>> THEN 0 ELSE Head(b)
           d == Head(a) - y - br
       IN <<d % Base>> \o MagSubB(Tail(a),
                                  IF b = <<>> THEN <<>> ELSE Tail(b),
                                  IF d < 0 THEN 1 ELSE 0)

MagSub(a, b) == MagNorm(MagSubB(a, b, 0))

\* -1, 0, 1 as a < b, a = b, a > b (normalised magnitudes)
RECURSIVE MagCmpFrom(_, _, _)
MagCmpFrom(a, b, i) ==
  IF i = 0 THEN 0
  ELSE IF a[i] < b[i] THEN -1
  ELSE IF a[i] > b[i] THEN 1
  ELSE MagCmpFrom(a, b, i - 1)

MagCmp(a, b) ==
  IF Len(a) < Len(b) THEN -1
  ELSE IF Len(a) > Len(b) THEN 1
  ELSE MagCmpFrom(a, b, Len(a))

\* a * d + c for a limb d
RECURSIVE MagMulSmallC(_, _, _)
MagMulSmallC(a, d, c) ==
  IF a = <<>> THEN (IF c = 0 THEN <<>> ELSE <<c>>)
  ELSE LET p == Head(a) * d + c
       IN <<p % Base>> \o MagMulSmallC(Tail(a), d, p \div Base)

MagMulSmall(a, d) == MagNorm(MagMulSmallC(a, d, 0))

RECURSIVE MagMul(_, _)
MagMul(a, b) ==
  IF a = <<>> \/ b = <<>> THEN <<>>
  ELSE MagNorm(MagAdd(MagMulSmall(a, Head(b)),
                      IF Tail(b) = <<>> THEN <<>> ELSE <<0>> \o MagMul(a, Tail(b))))

\* floor(a / d) for a limb d > 0, from the most significant limb down
RECURSIVE MagDivSmallR(_, _, _, _)
MagDivSmallR(a, d, i, r) ==
  IF i = 0 THEN <<>>
  ELSE LET cur == r * Base + a[i]
       IN MagDivSmallR(a, d, i - 1, cur % d) \o <<cur \div d>>

MagDivSmall(a, d) == MagNorm(MagDivSmallR(a, d, Len(a), 0))

Zeros(n) == [i \in 1..n |-> 0]

\* a * 2^k
MagShl(a, k) ==
  IF a = <<>> THEN <<>>
  ELSE Zeros(k \div LimbBits) \o MagMulSmall(a, 2 ^ (k % LimbBits))

\* floor(a / 2^k)
MagShr(a, k) ==
  IF k \div LimbBits >= Len(a) THEN <<>>
  ELSE MagDivSmall(SubSeq(a, (k \div LimbBits) + 1, Len(a)), 2 ^ (k % LimbBits))

RECURSIVE NatBits(_)
NatBits(n) == IF n = 0 THEN 0 ELSE 1 + NatBits(n \div 2)

\* the number of bits of a magnitude (int.bit_length)
MagBits(a) ==
  IF a = <<>> THEN 0 ELSE (Len(a) - 1) * LimbBits + NatBits(a[Len(a)])

MagBit(a, i) ==
  IF i \div LimbBits >= Len(a) THEN 0
  ELSE (a[(i \div LimbBits) + 1] \div (2 ^ (i % LimbBits))) % 2

\* the largest limb d in lo..hi with b * d <= cur, given b * lo <= cur
RECURSIVE QuotDigit(_, _, _, _)
QuotDigit(cur, b, lo, hi) ==
  IF lo = hi THEN lo
  ELSE LET mid == (lo + hi + 1) \div 2
       IN IF MagCmp(MagMulSmall(b, mid), cur) <= 0
          THEN QuotDigit(cur, b, mid, hi)
          ELSE QuotDigit(cur, b, lo, mid - 1)

\* one step of long division: the limb d joins the quotient below its limbs so far
DivStep(cur, b, d, q) == <<MagNorm(<<d>> \o q), MagSub(cur, MagMulSmall(b, d))>>

\* <<quotient, remainder>> of a by b > 0, by long division from limb i down;
\* qr is <<quotient, remainder>> of the limbs above i
RECURSIVE MagDivModR(_, _, _, _)
MagDivModR(a, b, i, qr) ==
  IF i = 0 THEN qr
  ELSE MagDivModR(a, b, i - 1,
                  DivStep(MagNorm(<<a[i]>> \o qr[2]), b,
                          QuotDigit(MagNorm(<<a[i]>> \o qr[2]), b, 0, Base - 1), qr[1]))

MagDivMod(a, b) == MagDivModR(a, b, Len(a), <<<<>>, <<>>>>)

Big(neg, mag) == [neg |-> neg /\ mag # <<>>, mag |-> mag]
BigOf(n) == IF n < 0 THEN Big(TRUE, MagOfNat(-n)) ELSE Big(FALSE, MagOfNat(n))
BigZero == Big(FALSE, <<>>)
BigNeg(x) == Big(~x.neg, x.mag)

BigAdd(x, y) ==
  IF x.neg = y.neg THEN Big(x.neg, MagAdd(x.mag, y.mag))
  ELSE IF MagCmp(x.mag, y.mag) >= 0 THEN Big(x.neg, MagSub(x.mag, y.mag))
  ELSE Big(y.neg, MagSub(y.mag, x.mag))

BigSub(x, y) == BigAdd(x, BigNeg(y))
BigMul(x, y) == Big(x.neg # y.neg, MagMul(x.mag, y.mag))

\* x << k
BigShl(x, k) == Big(x.neg, MagShl(x.mag, k))

\* x >> k: Python's arithmetic shift, floor(x / 2^k)
BigShr(x, k) ==
  LET q == MagShr(x.mag, k)
  IN IF ~x.neg THEN Big(FALSE, q)
     ELSE IF MagShl(q, k) = x.mag THEN Big(TRUE, q)
     ELSE Big(TRUE, MagAdd(q, <<1>>))

\* the machine integer of a Big that fits one
RECURSIVE MagToNat(_)
MagToNat(m) == IF m = <<>> THEN 0 ELSE Head(m) + Base * MagToNat(Tail(m))

BigToInt(x) == IF x.neg THEN -MagToNat(x.mag) ELSE MagToNat(x.mag)


(***************************************************************************)
(* Python floats.  a / b on integers is the double nearest the quotient    *)
(* (round half to even); a double is a sign, a 53-bit mantissa man and a   *)
(* shift sh, of value man * 2^(-sh).  Quotients here stay far inside the   *)
(* range of normal doubles.                                                *)
(***************************************************************************)
MantBits == 53

Float(neg, man, sh) == [neg |-> neg /\ man # <<>>, man |-> man, sh |-> sh]

\* the rounded quotient of magnitudes a > 0 and b > 0 under shift s
MagRoundDiv(a, b, s) ==
  LET num == IF s >= 0 THEN MagShl(a, s) ELSE a
      den == IF s >= 0 THEN b ELSE MagShl(b, -s)
      qr  == MagDivMod(num, den)
      c   == MagCmp(MagMulSmall(qr[2], 2), den)
      up  == c > 0 \/ (c = 0 /\ MagBit(qr[1], 0) = 1)
  IN [bits |-> MagBits(qr[1]),
      man  |-> IF up THEN MagAdd(qr[1], <<1>>) ELSE qr[1]]

\* x / y, y # 0
PyTrueDiv(x, y) ==
  IF x.mag = <<>> THEN Float(FALSE, <<>>, 0)
  ELSE LET s0 == MantBits + MagBits(y.mag) - MagBits(x.mag)
           r0 == MagRoundDiv(x.mag, y.mag, s0)
       IN IF r0.bits > MantBits
          THEN Float(x.neg # y.neg, MagRoundDiv(x.mag, y.mag, s0 - 1).man, s0 - 1)
          ELSE Float(x.neg # y.neg, r0.man, s0)

\* int(f): truncation toward zero
PyInt(f) ==
  IF f.sh <= 0 THEN Big(f.neg, MagShl(f.man, -f.sh))
  ELSE Big(f.neg, MagShr(f.man, f.sh))

(***************************************************************************)
(* The compensation formulas, on the coefficients dig (a function from the *)
(* coefficient names to None or Some(integer)).  Arithmetic on None raises *)
(* TypeError at the first statement that touches it.                       *)
(***************************************************************************)
CoefNames == {"T1", "T2", "T3", "P1", "P2", "P3", "P4", "P5", "P6", "P7", "P8", "P9"}

D(dig, n) == BigOf(Val(dig[n]))

\* a compensate_temp whose last shift of var2 truncates toward zero
compensate_temp_body_Trunc(dig, raw_temp) ==
  IF dig["T1"] = None \/ dig["T2"] = None \/ dig["T3"] = None
  THEN [err |-> "TypeError", t_fine |-> None, value |-> None]
  ELSE
    LET raw  == BigOf(raw_temp)
        var1 == BigShr(BigMul(BigSub(BigShr(raw, 3), BigShl(D(dig, "T1"), 1)),
                              D(dig, "T2")), 11)
        d4   == BigSub(BigShr(raw, 4), D(dig, "T1"))
        m    == BigMul(BigShr(BigMul(d4, d4), 12), D(dig, "T3"))
        var2 == IF m.neg THEN BigNeg(BigShr(BigNeg(m), 14)) ELSE BigShr(m, 14)
        tf   == BigAdd(var1, var2)
        temp == BigShr(BigAdd(BigMul(tf, BigOf(5)), BigOf(128)), 8)
    IN [err |-> "", t_fine |-> Some(tf), value |-> Some(PyTrueDiv(temp, BigOf(100)))]

\* compensate_temp, lines 250-254: [err, t_fine, value]
compensate_temp_body(dig, raw_temp) ==
  IF dig["T1"] = None \/ dig["T2"] = None \/ dig["T3"] = None
  THEN [err |-> "TypeError", t_fine |-> None, value |-> None]
  ELSE
    LET raw  == BigOf(raw_temp)
        var1 == BigShr(BigMul(BigSub(BigShr(raw, 3), BigShl(D(dig, "T1"), 1)),
                              D(dig, "T2")), 11)
        d4   == BigSub(BigShr(raw, 4), D(dig, "T1"))
        var2 == BigShr(BigMul(BigShr(BigMul(d4, d4), 12), D(dig, "T3")), 14)
        tf   == BigAdd(var1, var2)
        temp == BigShr(BigAdd(BigMul(tf, BigOf(5)), BigOf(128)), 8)
    IN [err |-> "", t_fine |-> Some(tf), value |-> Some(PyTrueDiv(temp, BigOf(100)))]

\* compensate_press, lines 261-266: the denominator var1
PressVar1(dig, tf) ==
  LET v1 == BigSub(tf, BigOf(128000))
      a  == BigAdd(BigShr(BigMul(BigMul(v1, v1), D(dig, "P3")), 8),
                   BigShl(BigMul(v1, D(dig, "P2")), 12))
  IN BigShr(BigMul(BigAdd(BigShl(BigOf(1), 47), a), D(dig, "P1")), 33)

\* compensate_press, lines 261-264: var2
PressVar2(dig, tf) ==
  LET v1 == BigSub(tf, BigOf(128000))
      a  == BigMul(BigMul(v1, v1), D(dig, "P6"))
      b  == BigAdd(a, BigShl(BigMul(v1, D(dig, "P5")), 17))
  IN BigAdd(b, BigShl(D(dig, "P4"), 35))

\* line 271: int((((press << 31) - var2) * 3125) / var1)
PressQuotient(num, var1) == PyInt(PyTrueDiv(num, var1))

\* compensate_press, lines 270-274
PressNonZero(dig, raw_press, var1, var2) ==
  LET p0 == BigOf(1048576 - raw_press)
      p1 == PressQuotient(BigMul(BigSub(BigShl(p0, 31), var2), BigOf(3125)), var1)
      w1 == BigShr(BigMul(BigMul(D(dig, "P9"), BigShr(p1, 13)), BigShr(p1, 13)), 25)
      w2 == BigShr(BigMul(D(dig, "P8"), p1), 19)
  IN BigAdd(BigShr(BigAdd(BigAdd(p1, w1), w2), 8), BigShl(D(dig, "P7"), 4))

\* a compensate_press that divides by var1 whatever it is
PressResult_Divides(dig, tf, raw_press) ==
  LET var1 == PressVar1(dig, tf)
      var2 == PressVar2(dig, tf)
  IN IF \E n \in {"P7", "P8", "P9"} : dig[n] = None
     THEN [err |-> "TypeError", value |-> None]
     ELSE IF var1 = BigZero
     THEN [err |-> "ZeroDivisionError", value |-> None]
     ELSE [err |-> "",
           value |-> Some(PyTrueDiv(PressNonZero(dig, raw_press, var1, var2),
                                    BigOf(256)))]

\* compensate_press, lines 266-275, with t_fine and P1..P6 set: [err, value]
PressResult(dig, tf, raw_press) ==
  LET var1 == PressVar1(dig, tf)
      var2 == PressVar2(dig, tf)
  IN IF var1 = BigZero
     THEN [err |-> "", value |-> Some(PyTrueDiv(BigZero, BigOf(256)))]
     ELSE IF \E n \in {"P7", "P8", "P9"} : dig[n] = None
     THEN [err |-> "TypeError", value |-> None]
     ELSE [err |-> "",
           value |-> Some(PyTrueDiv(PressNonZero(dig, raw_press, var1, var2),
                                    BigOf(256)))]

\* a driver that takes an unset t_fine for 0
compensate_press_body_ZeroFine(dig, tf, raw_press) ==
  IF \E n \in {"P1", "P2", "P3", "P4", "P5", "P6"} : dig[n] = None
  THEN [err |-> "TypeError", value |-> None]
  ELSE PressResult(dig, IF tf = None THEN BigZero ELSE Val(tf), raw_press)

\* compensate_press, lines 261-275: [err, value]
compensate_press_body(dig, tf, raw_press) ==
  IF tf = None \/ \E n \in {"P1", "P2", "P3", "P4", "P5", "P6"} : dig[n] = None
  THEN [err |-> "TypeError", value |-> None]
  ELSE PressResult(dig, Val(tf), raw_press)

(***************************************************************************)
(* State.                                                                  *)
(***************************************************************************)
VARIABLES
  dig,         \* self.dig_T1 .. self.dig_P9: coefficient name -> None or Some(int)
  t_fine,      \* self.t_fine: None or Some(integer)
  stack,       \* the call in progress: frames [fn, pc, v], innermost last
  call,        \* the caller's current or last call: [fn, args]
  ret,         \* what that call returned: None or Some(value)
  exc,         \* the exception that ended it, "" for none
  io,          \* the transport operations issued by that call, in order
  asked,       \* history: the (osrs_t, osrs_p) the caller last had written, or None
  dev_ptr,     \* device: register pointer
  dev_ctrl,    \* device: register 0xF4
  dev_config,  \* device: register 0xF5
  dev_calib,   \* device: the 24 calibration bytes at 0x88
  dev_data,    \* device: the data registers, [temp, press] as 20-bit values
  dev_k        \* device: the number of samples taken so far

drv  == <<dig, t_fine>>
ctl  == <<stack, call, ret, exc, io, asked>>
dev  == <<dev_ptr, dev_ctrl, dev_config, dev_calib, dev_data, dev_k>>
vars == <<dig, t_fine, stack, call, ret, exc, io, asked,
          dev_ptr, dev_ctrl, dev_config, dev_calib, dev_data, dev_k>>

(***************************************************************************)
(* The device behind the transport: a register file at I2C address 0x76.   *)
(***************************************************************************)
\* two's-complement little-endian bytes of a 16-bit coefficient
ToBytesLittle16(x) ==
  LET u == IF x < 0 THEN x + 65536 ELSE x IN <<u % 256, u \div 256>>

RECURSIVE CalibBytes(_)
CalibBytes(cs) ==
  IF cs = <<>> THEN <<>> ELSE ToBytesLittle16(Head(cs)) \o CalibBytes(Tail(cs))

\* the coefficient sets a device may hold, in the order T1..T3, P1..P9
SampleCalib == <<27504, 26435, -1000, 36477, -10685, 3024, 2855, 140, -7, 15500, -14600, 6000>>
ZeroPressCalib == <<27504, 26435, -1000, 0, 0, 0, 0, 0, 0, 0, 0, 0>>
CalibBlocks == {CalibBytes(SampleCalib), CalibBytes(ZeroPressCalib)}

\* the data registers' reset pattern and the values of the k-th sample
NoData == 524288
TempAt(k) == 519888 + 160 * (k - 1)
PressAt(k) == 415148 - 320 * (k - 1)

\* MSB, LSB, XLSB of a 20-bit value
DataBytes(v) == <<v \div 4096, (v \div 16) % 256, (v % 16) * 16>>

StatusBytes == {0, 1, 8, 9}

\* the byte at register a; st is the status byte of the moment
DevRegister(a, st) ==
  IF a >= CALIB /\ a < CALIB + 24 THEN dev_calib[a - CALIB + 1]
  ELSE IF a = ID THEN CHIP_ID
  ELSE IF a = STATUS THEN st
  ELSE IF a = CTRL_MEAS THEN dev_ctrl
  ELSE IF a = CONFIG THEN dev_config
  ELSE IF a >= PRESS_MSB /\ a < PRESS_MSB + 3 THEN DataBytes(dev_data.press)[a - PRESS_MSB + 1]
  ELSE IF a >= TEMP_MSB /\ a < TEMP_MSB + 3 THEN DataBytes(dev_data.temp)[a - TEMP_MSB + 1]
  ELSE 0

\* a read of size bytes from the register pointer on
DevRead(size, st) == [i \in 1..size |-> DevRegister(dev_ptr + i - 1, st)]

\* a write of the bytes data: one byte sets the register pointer, two write a register
DevWrite(data) ==
  /\ dev_ptr' = data[1]
  /\ IF Len(data) = 2 /\ data[1] = RESET /\ data[2] = RESET_CODE
     THEN /\ dev_ctrl' = 0
          /\ dev_config' = 0
          /\ dev_data' = [temp |-> NoData, press |-> NoData]
     ELSE /\ dev_ctrl' = IF Len(data) = 2 /\ data[1] = CTRL_MEAS THEN data[2] ELSE dev_ctrl
          /\ dev_config' = IF Len(data) = 2 /\ data[1] = CONFIG THEN data[2] ELSE dev_config
          /\ dev_data' = dev_data
  /\ UNCHANGED <<dev_calib, dev_k>>

\* The device samples on its own: in normal mode again and again, in forced mode
\* once and then falls back to sleep.  A channel whose oversampling is skipped
\* reads as the reset pattern.
DeviceSample ==
  /\ dev_ctrl % 4 # SLEEP_MODE
  /\ dev_k < MaxSample
  /\ dev_k' = dev_k + 1
  /\ dev_data' = [temp  |-> IF dev_ctrl \div 32 = 0 THEN NoData ELSE TempAt(dev_k + 1),
                  press |-> IF (dev_ctrl \div 4) % 8 = 0 THEN NoData ELSE PressAt(dev_k + 1)]
  /\ dev_ctrl' = IF dev_ctrl % 4 = NORMAL_MODE THEN dev_ctrl ELSE dev_ctrl - (dev_ctrl % 4)
  /\ UNCHANGED <<dev_ptr, dev_config, dev_calib>>
  /\ UNCHANGED <<drv, ctl>>

(***************************************************************************)
(* The transport, self.sc18.  Either operation may fail, and then raises.  *)
(***************************************************************************)
\* self.sc18.write_i2c(BMP280_I2C_ADDR, data)
write_i2c(data, ok) ==
  /\ io' = Append(io, [op |-> "write", addr |-> BMP280_I2C_ADDR, data |-> data,
                       size |-> Len(data), ok |-> ok])
  /\ IF ok THEN DevWrite(data) ELSE UNCHANGED dev

\* rdata = self.sc18.read_i2c(BMP280_I2C_ADDR, size=size); rdata is the bytes the
\* device returns, <<>> when the read fails
read_i2c(size, ok, rdata) ==
  /\ io' = Append(io, [op |-> "read", addr |-> BMP280_I2C_ADDR,
                       data |-> IF ok THEN rdata ELSE <<>>, size |-> size, ok |-> ok])
  /\ UNCHANGED dev

(***************************************************************************)
(* Control.  A frame is [fn, pc, v]: the function, the source line of its  *)
(* next statement, and its arguments and locals.  The methods that only    *)
(* call other methods are given by their statement at a line; a call       *)
(* pushes the callee's frame, a return stores the value in the caller's    *)
(* local and moves it to its next line.  An exception unwinds every frame: *)
(* the driver has no handler.                                              *)
(***************************************************************************)
Frame(fn, pc, v) == [fn |-> fn, pc |-> pc, v |-> v]
CallStmt(fn, args, slot, next) ==
  [kind |-> "call", fn |-> fn, args |-> args, slot |-> slot, next |-> next, val |-> None]
ReturnStmt(val) ==
  [kind |-> "return", fn |-> "", args |-> <<>>, slot |-> 0, next |-> 0, val |-> val]
LeafStmt ==
  [kind |-> "leaf", fn |-> "", args |-> <<>>, slot |-> 0, next |-> 0, val |-> None]

\* a begin that reads the calibration before it resets the device
begin_CalibFirst(f) ==
  CASE f.pc = 86 -> CallStmt("read_calib", <<>>, 0, 87)
    [] f.pc = 87 -> CallStmt("write_reset", <<>>, 0, 88)
    [] f.pc = 88 -> CallStmt("write_config", <<T_SB_05, FILTER_OFF, FALSE>>, 0, 89)
    [] f.pc = 89 -> CallStmt("write_ctrl_meas", <<OSRS_T_X1, OSRS_P_X1, SLEEP_MODE>>, 0, 90)
    [] OTHER -> ReturnStmt(None)

\* a begin that leaves the device in forced mode
begin_Forced(f) ==
  CASE f.pc = 86 -> CallStmt("write_reset", <<>>, 0, 87)
    [] f.pc = 87 -> CallStmt("read_calib", <<>>, 0, 88)
    [] f.pc = 88 -> CallStmt("write_config", <<T_SB_05, FILTER_OFF, FALSE>>, 0, 89)
    [] f.pc = 89 -> CallStmt("write_ctrl_meas", <<OSRS_T_X1, OSRS_P_X1, FORCED_MODE>>, 0, 90)
    [] OTHER -> ReturnStmt(None)

\* begin, lines 83-89
begin(f) ==
  CASE f.pc = 86 -> CallStmt("write_reset", <<>>, 0, 87)
    [] f.pc = 87 -> CallStmt("read_calib", <<>>, 0, 88)
    [] f.pc = 88 -> CallStmt("write_config", <<T_SB_05, FILTER_OFF, FALSE>>, 0, 89)
    [] f.pc = 89 -> CallStmt("write_ctrl_meas", <<OSRS_T_X1, OSRS_P_X1, SLEEP_MODE>>, 0, 90)
    [] OTHER -> ReturnStmt(None)

\* is_measuring, lines 141-145; v = <<(measuring, im_update)>>
is_measuring(f) ==
  CASE f.pc = 144 -> CallStmt("read_status", <<>>, 1, 145)
    [] OTHER -> ReturnStmt(Val(f.v[1])[1])

\* is_im_update, lines 148-152
is_im_update(f) ==
  CASE f.pc = 151 -> CallStmt("read_status", <<>>, 1, 152)
    [] OTHER -> ReturnStmt(Val(f.v[1])[2])

\* sleep_mode, lines 181-186; v = <<(osrs_t, osrs_p, mode)>>
sleep_mode(f) ==
  CASE f.pc = 184 -> CallStmt("read_ctrl_meas", <<>>, 1, 186)
    [] f.pc = 186 -> CallStmt("write_ctrl_meas",
                              <<Val(f.v[1])[1], Val(f.v[1])[2], SLEEP_MODE>>, 0, 187)
    [] OTHER -> ReturnStmt(None)

\* forced_mode, lines 188-193
forced_mode(f) ==
  CASE f.pc = 191 -> CallStmt("read_ctrl_meas", <<>>, 1, 193)
    [] f.pc = 193 -> CallStmt("write_ctrl_meas",
                              <<Val(f.v[1])[1], Val(f.v[1])[2], FORCED_MODE>>, 0, 194)
    [] OTHER -> ReturnStmt(None)

\* normal_mode, lines 195-200
normal_mode(f) ==
  CASE f.pc = 198 -> CallStmt("read_ctrl_meas", <<>>, 1, 200)
    [] f.pc = 200 -> CallStmt("write_ctrl_meas",
                              <<Val(f.v[1])[1], Val(f.v[1])[2], NORMAL_MODE>>, 0, 201)
    [] OTHER -> ReturnStmt(None)

\* a get_measure_data that compensates the temperature before it reads the pressure
get_measure_data_TempFirst(f) ==
  CASE f.pc = 280 -> CallStmt("read_temp", <<>>, 1, 282)
    [] f.pc = 282 -> CallStmt("compensate_temp", <<Val(f.v[1])>>, 3, 281)
    [] f.pc = 281 -> CallStmt("read_press", <<>>, 2, 283)
    [] f.pc = 283 -> CallStmt("compensate_press", <<Val(f.v[2])>>, 4, 284)
    [] OTHER -> ReturnStmt(<<Val(f.v[3]), Val(f.v[4])>>)

\* get_measure_data, lines 277-284; v = <<raw_temp, raw_press, temp_C, press_Pa>>
get_measure_data(f) ==
  CASE f.pc = 280 -> CallStmt("read_temp", <<>>, 1, 281)
    [] f.pc = 281 -> CallStmt("read_press", <<>>, 2, 282)
    [] f.pc = 282 -> CallStmt("compensate_temp", <<Val(f.v[1])>>, 3, 283)
    [] f.pc = 283 -> CallStmt("compensate_press", <<Val(f.v[2])>>, 4, 284)
    [] OTHER -> ReturnStmt(<<Val(f.v[3]), Val(f.v[4])>>)

Stmt(f) ==
  CASE f.fn = "begin" -> begin(f)
    [] f.fn = "is_measuring" -> is_measuring(f)
    [] f.fn = "is_im_update" -> is_im_update(f)
    [] f.fn = "sleep_mode" -> sleep_mode(f)
    [] f.fn = "forced_mode" -> forced_mode(f)
    [] f.fn = "normal_mode" -> normal_mode(f)
    [] f.fn = "get_measure_data" -> get_measure_data(f)
    [] OTHER -> LeafStmt

\* the line of a function's first statement
EntryPc(fn) ==
  CASE fn = "begin" -> 86
    [] fn = "read_calib" -> 95
    [] fn = "read_id" -> 115
    [] fn = "write_reset" -> 125
    [] fn = "read_status" -> 132
    [] fn = "is_measuring" -> 144
    [] fn = "is_im_update" -> 151
    [] fn = "read_ctrl_meas" -> 158
    [] fn = "write_ctrl_meas" -> 170
    [] fn = "sleep_mode" -> 184
    [] fn = "forced_mode" -> 191
    [] fn = "normal_mode" -> 198
    [] fn = "read_config" -> 206
    [] fn = "write_config" -> 218
    [] fn = "read_press" -> 231
    [] fn = "read_temp" -> 241
    [] fn = "compensate_temp" -> 250
    [] fn = "compensate_press" -> 261
    [] fn = "get_measure_data" -> 280

\* a new frame's arguments and locals, the locals unset
Locals(fn, args) ==
  CASE fn \in {"is_measuring", "is_im_update", "sleep_mode", "forced_mode", "normal_mode"}
         -> <<None>>
    [] fn = "get_measure_data" -> <<None, None, None, None>>
    [] OTHER -> args

Resume(f, st, r) ==
  [f EXCEPT !.pc = st.next,
            !.v = IF st.slot = 0 THEN f.v ELSE [f.v EXCEPT ![st.slot] = Some(r)]]

RECURSIVE Enter(_)
RECURSIVE ReturnTo(_, _)

\* run the innermost frame up to its next statement that acts
Enter(stk) ==
  LET f  == stk[Len(stk)]
      st == Stmt(f)
  IN IF st.kind = "call"
     THEN Enter(Append(stk, Frame(st.fn, EntryPc(st.fn), Locals(st.fn, st.args))))
     ELSE IF st.kind = "return"
     THEN ReturnTo(SubSeq(stk, 1, Len(stk) - 1), st.val)
     ELSE [stk |-> stk, ret |-> None]

\* hand r to the frame that called, or to the caller of the driver
ReturnTo(stk, r) ==
  IF stk = <<>> THEN [stk |-> <<>>, ret |-> Some(r)]
  ELSE LET f == stk[Len(stk)]
       IN Enter([stk EXCEPT ![Len(stk)] = Resume(f, Stmt(f), r)])

Top == stack[Len(stack)]
At(fn, pc) == stack # <<>> /\ Top.fn = fn /\ Top.pc = pc

Raise(kind) == stack' = <<>> /\ ret' = None /\ exc' = kind

Return(r) ==
  LET s == ReturnTo(SubSeq(stack, 1, Len(stack) - 1), r)
  IN stack' = s.stk /\ ret' = s.ret /\ exc' = exc

Goto(pc) ==
  /\ stack' = [stack EXCEPT ![Len(stack)].pc = pc]
  /\ UNCHANGED <<ret, exc>>

\* a register read that relies on the pointer the device already has
SendPointer_Skip(reg, next) ==
  /\ Goto(next)
  /\ UNCHANGED <<io, dev>>

\* a pointer write that is tried again when it fails
SendPointer_Retry(reg, next) ==
  \E ok \in BOOLEAN :
    /\ write_i2c(<<reg>>, ok)
    /\ IF ok THEN Goto(next) ELSE Goto(Top.pc)

\* wdata = bytes([reg]); self.sc18.write_i2c(BMP280_I2C_ADDR, wdata); time.sleep(10/1000)
SendPointer(reg, next) ==
  \E ok \in BOOLEAN :
    /\ write_i2c(<<reg>>, ok)
    /\ IF ok THEN Goto(next) ELSE Raise("TransportError")


(***************************************************************************)
(* The methods that act, one action each; a disjunct is one statement.     *)
(***************************************************************************)
\* lines 98-109
DecodeCalib(rdata) ==
  [n \in CoefNames |->
     Some(CASE n = "T1" -> FromBytesLittleU16(SubSeq(rdata, 1, 2))
            [] n = "T2" -> FromBytesLittleS16(SubSeq(rdata, 3, 4))
            [] n = "T3" -> FromBytesLittleS16(SubSeq(rdata, 5, 6))
            [] n = "P1" -> FromBytesLittleU16(SubSeq(rdata, 7, 8))
            [] n = "P2" -> FromBytesLittleS16(SubSeq(rdata, 9, 10))
            [] n = "P3" -> FromBytesLittleS16(SubSeq(rdata, 11, 12))
            [] n = "P4" -> FromBytesLittleS16(SubSeq(rdata, 13, 14))
            [] n = "P5" -> FromBytesLittleS16(SubSeq(rdata, 15, 16))
            [] n = "P6" -> FromBytesLittleS16(SubSeq(rdata, 17, 18))
            [] n = "P7" -> FromBytesLittleS16(SubSeq(rdata, 19, 20))
            [] n = "P8" -> FromBytesLittleS16(SubSeq(rdata, 21, 22))
            [] n = "P9" -> FromBytesLittleS16(SubSeq(rdata, 23, 24)))]

\* a read_calib that has assigned its first coefficient when the read fails
read_calib_PartialOnFail ==
  \/ /\ At("read_calib", 95)
     /\ SendPointer(CALIB, 97)
     /\ UNCHANGED <<drv, call, asked>>
  \/ /\ At("read_calib", 97)
     /\ \E ok \in BOOLEAN :
          /\ read_i2c(24, ok, DevRead(24, 0))
          /\ IF ok
             THEN dig' = DecodeCalib(DevRead(24, 0)) /\ Return(None)
             ELSE dig' = [dig EXCEPT !["T1"] = Some(0)] /\ Raise("TransportError")
     /\ UNCHANGED <<t_fine, call, asked>>

read_calib ==
  \/ /\ At("read_calib", 95)
     /\ SendPointer(CALIB, 97)
     /\ UNCHANGED <<drv, call, asked>>
  \/ /\ At("read_calib", 97)
     /\ \E ok \in BOOLEAN :
          /\ read_i2c(24, ok, DevRead(24, 0))
          /\ IF ok
             THEN dig' = DecodeCalib(DevRead(24, 0)) /\ Return(None)
             ELSE dig' = dig /\ Raise("TransportError")
     /\ UNCHANGED <<t_fine, call, asked>>

read_id ==
  \/ /\ At("read_id", 115)
     /\ SendPointer(ID, 117)
     /\ UNCHANGED <<drv, call, asked>>
  \/ /\ At("read_id", 117)
     /\ \E ok \in BOOLEAN :
          /\ read_i2c(1, ok, DevRead(1, 0))
          /\ IF ok THEN Return(FromBytesBig(DevRead(1, 0))) ELSE Raise("TransportError")
     /\ UNCHANGED <<drv, call, asked>>

\* a write_reset that forgets the coefficients
write_reset_ClearsCalib ==
  /\ At("write_reset", 125)
  /\ \E ok \in BOOLEAN :
       /\ write_i2c(<<RESET, RESET_CODE>>, ok)
       /\ IF ok THEN Return(None) ELSE Raise("TransportError")
       /\ asked' = IF ok THEN None ELSE asked
       /\ dig' = IF ok THEN [n \in CoefNames |-> None] ELSE dig
  /\ UNCHANGED <<t_fine, call>>

write_reset ==
  /\ At("write_reset", 125)
  /\ \E ok \in BOOLEAN :
       /\ write_i2c(<<RESET, RESET_CODE>>, ok)
       /\ IF ok THEN Return(None) ELSE Raise("TransportError")
       /\ asked' = IF ok THEN None ELSE asked
  /\ UNCHANGED <<drv, call>>

\* lines 135-138
DecodeStatus(rdata) ==
  LET value == FromBytesBig(rdata)
  IN <<BitAnd(value, 8) # 0, BitAnd(value, 1) # 0>>

read_status ==
  \/ /\ At("read_status", 132)
     /\ SendPointer(STATUS, 134)
     /\ UNCHANGED <<drv, call, asked>>
  \/ /\ At("read_status", 134)
     /\ \E ok \in BOOLEAN, st \in StatusBytes :
          /\ read_i2c(1, ok, DevRead(1, st))
          /\ IF ok THEN Return(DecodeStatus(DevRead(1, st))) ELSE Raise("TransportError")
     /\ UNCHANGED <<drv, call, asked>>

\* lines 161-165
DecodeCtrlMeas(rdata) ==
  LET value == FromBytesBig(rdata)
  IN <<Shr(BitAnd(value, 224), 5), Shr(BitAnd(value, 28), 2), Shr(BitAnd(value, 3), 0)>>

read_ctrl_meas ==
  \/ /\ At("read_ctrl_meas", 158)
     /\ SendPointer(CTRL_MEAS, 160)
     /\ UNCHANGED <<drv, call, asked>>
  \/ /\ At("read_ctrl_meas", 160)
     /\ \E ok \in BOOLEAN :
          /\ read_i2c(1, ok, DevRead(1, 0))
          /\ IF ok THEN Return(DecodeCtrlMeas(DevRead(1, 0))) ELSE Raise("TransportError")
     /\ UNCHANGED <<drv, call, asked>>

\* the call in progress is a mode helper's
ModeHelperCall == stack[1].fn \in {"sleep_mode", "forced_mode", "normal_mode"}

\* line 176
CtrlMeasValue(osrs_t, osrs_p, mode) ==
  BitOr(BitOr(Shl(osrs_p, 5), Shl(osrs_p, 2)), Shl(mode, 0))

\* a validation that forgets the upper end of osrs_t
CtrlMeasArgsBad_NoUpperT(osrs_t, osrs_p, mode) ==
  \/ osrs_t < 0
  \/ osrs_p < 0 \/ 7 < osrs_p
  \/ mode < 0 \/ 3 < mode

\* lines 170-175
CtrlMeasArgsBad(osrs_t, osrs_p, mode) ==
  \/ osrs_t < 0 \/ 7 < osrs_t
  \/ osrs_p < 0 \/ 7 < osrs_p
  \/ mode < 0 \/ 3 < mode

write_ctrl_meas ==
  /\ At("write_ctrl_meas", 170)
  /\ LET osrs_t == Top.v[1]
         osrs_p == Top.v[2]
         mode   == Top.v[3]
     IN IF CtrlMeasArgsBad(osrs_t, osrs_p, mode)
        THEN Raise("ValueError") /\ UNCHANGED <<io, dev, asked>>
        ELSE \E ok \in BOOLEAN :
               /\ write_i2c(<<CTRL_MEAS, CtrlMeasValue(osrs_t, osrs_p, mode)>>, ok)
               /\ IF ok THEN Return(None) ELSE Raise("TransportError")
               /\ asked' = IF ok /\ ~ModeHelperCall THEN Some(<<osrs_t, osrs_p>>) ELSE asked
  /\ UNCHANGED <<drv, call>>

\* lines 209-213
DecodeConfig(rdata) ==
  LET value == FromBytesBig(rdata)
  IN <<Shr(BitAnd(value, 224), 5), Shr(BitAnd(value, 28), 2), Shr(BitAnd(value, 1), 0)>>

read_config ==
  \/ /\ At("read_config", 206)
     /\ SendPointer(CONFIG, 208)
     /\ UNCHANGED <<drv, call, asked>>
  \/ /\ At("read_config", 208)
     /\ \E ok \in BOOLEAN :
          /\ read_i2c(1, ok, DevRead(1, 0))
          /\ IF ok THEN Return(DecodeConfig(DevRead(1, 0))) ELSE Raise("TransportError")
     /\ UNCHANGED <<drv, call, asked>>

\* a packing that drops spi3w_en
ConfigValue_NoSpi(t_sb, filter, spi3w_en) ==
  BitOr(Shl(t_sb, 5), Shl(filter, 2))

\* line 222
ConfigValue(t_sb, filter, spi3w_en) ==
  BitOr(BitOr(Shl(t_sb, 5), Shl(filter, 2)), Shl(BoolToInt(spi3w_en), 0))

\* lines 218-221
ConfigArgsBad(t_sb, filter) ==
  \/ t_sb < 0 \/ 7 < t_sb
  \/ filter < 0 \/ 7 < filter

write_config ==
  /\ At("write_config", 218)
  /\ LET t_sb     == Top.v[1]
         filter   == Top.v[2]
         spi3w_en == Top.v[3]
     IN IF ConfigArgsBad(t_sb, filter)
        THEN Raise("ValueError") /\ UNCHANGED <<io, dev>>
        ELSE \E ok \in BOOLEAN :
               /\ write_i2c(<<CONFIG, ConfigValue(t_sb, filter, spi3w_en)>>, ok)
               /\ IF ok THEN Return(None) ELSE Raise("TransportError")
  /\ UNCHANGED <<drv, call, asked>>

\* lines 234-235 and 244-245
DecodeRaw(rdata) == Shr(BitAnd(FromBytesBig(rdata), 16777200), 4)

read_press ==
  \/ /\ At("read_press", 231)
     /\ SendPointer(PRESS_MSB, 233)
     /\ UNCHANGED <<drv, call, asked>>
  \/ /\ At("read_press", 233)
     /\ \E ok \in BOOLEAN :
          /\ read_i2c(3, ok, DevRead(3, 0))
          /\ IF ok THEN Return(DecodeRaw(DevRead(3, 0))) ELSE Raise("TransportError")
     /\ UNCHANGED <<drv, call, asked>>

read_temp ==
  \/ /\ At("read_temp", 241)
     /\ SendPointer(TEMP_MSB, 243)
     /\ UNCHANGED <<drv, call, asked>>
  \/ /\ At("read_temp", 243)
     /\ \E ok \in BOOLEAN :
          /\ read_i2c(3, ok, DevRead(3, 0))
          /\ IF ok THEN Return(DecodeRaw(DevRead(3, 0))) ELSE Raise("TransportError")
     /\ UNCHANGED <<drv, call, asked>>

\* a compensate_temp that stores the fine temperature only while none is stored
compensate_temp_KeepsFirst ==
  /\ At("compensate_temp", 250)
  /\ LET r == compensate_temp_body(dig, Top.v[1])
     IN IF r.err # ""
        THEN t_fine' = t_fine /\ Raise(r.err)
        ELSE /\ t_fine' = IF t_fine = None THEN r.t_fine ELSE t_fine
             /\ Return(Val(r.value))
  /\ UNCHANGED <<dig, call, asked, io, dev>>

compensate_temp ==
  /\ At("compensate_temp", 250)
  /\ LET r == compensate_temp_body(dig, Top.v[1])
     IN IF r.err # ""
        THEN t_fine' = t_fine /\ Raise(r.err)
        ELSE t_fine' = r.t_fine /\ Return(Val(r.value))
  /\ UNCHANGED <<dig, call, asked, io, dev>>

\* a compensate_press that uses the fine temperature up
compensate_press_ClearsFine ==
  /\ At("compensate_press", 261)
  /\ LET r == compensate_press_body(dig, t_fine, Top.v[1])
     IN IF r.err # ""
        THEN t_fine' = t_fine /\ Raise(r.err)
        ELSE t_fine' = None /\ Return(Val(r.value))
  /\ UNCHANGED <<dig, call, asked, io, dev>>

compensate_press ==
  /\ At("compensate_press", 261)
  /\ LET r == compensate_press_body(dig, t_fine, Top.v[1])
     IN IF r.err # "" THEN Raise(r.err) ELSE Return(Val(r.value))
  /\ UNCHANGED <<drv, call, asked, io, dev>>

(***************************************************************************)
(* The caller: with no call in progress, it calls any method.              *)
(***************************************************************************)
RawTempArgs == {TempAt(k) : k \in 1..MaxSample}
RawPressArgs == {PressAt(k) : k \in 1..MaxSample}

NoCall == [fn |-> "", args |-> <<>>]

\* the caller calls a method
Invoke(fn, args) ==
  /\ stack = <<>>
  /\ call = NoCall
  /\ LET s == Enter(<<Frame(fn, EntryPc(fn), Locals(fn, args))>>)
     IN stack' = s.stk
  /\ call' = [fn |-> fn, args |-> args]
  /\ ret' = None
  /\ exc' = ""
  /\ io' = <<>>
  /\ UNCHANGED <<drv, dev, asked>>

\* the caller has taken the result of its call, or caught its exception
TakeResult ==
  /\ stack = <<>>
  /\ call # NoCall
  /\ call' = NoCall
  /\ ret' = None
  /\ exc' = ""
  /\ io' = <<>>
  /\ UNCHANGED <<stack, drv, dev, asked>>

\* the methods without arguments
PlainMethods ==
  {"begin", "read_calib", "read_id", "write_reset", "read_status", "is_measuring",
   "is_im_update", "read_ctrl_meas", "sleep_mode", "forced_mode", "normal_mode",
   "read_config", "read_press", "read_temp", "get_measure_data"}

CallPlain(fns) == \E fn \in fns : Invoke(fn, <<>>)

CallWriteCtrlMeas(T, P, M) ==
  \E osrs_t \in T, osrs_p \in P, mode \in M :
    Invoke("write_ctrl_meas", <<osrs_t, osrs_p, mode>>)

CallWriteConfig(S, F) ==
  \E t_sb \in S, filter \in F, spi3w_en \in BOOLEAN :
    Invoke("write_config", <<t_sb, filter, spi3w_en>>)

CallCompensateTemp == \E raw_temp \in RawTempArgs : Invoke("compensate_temp", <<raw_temp>>)

CallCompensatePress == \E raw_press \in RawPressArgs : Invoke("compensate_press", <<raw_press>>)

\* __init__, lines 65-81, with the device as it powers up
Init ==
  /\ dig = [n \in CoefNames |-> None]
  /\ t_fine = None
  /\ stack = <<>>
  /\ call = NoCall
  /\ ret = None
  /\ exc = ""
  /\ io = <<>>
  /\ asked = None
  /\ dev_ptr = 0
  /\ dev_ctrl = 0
  /\ dev_config = 0
  /\ dev_calib \in CalibBlocks
  /\ dev_data = [temp |-> NoData, press |-> NoData]
  /\ dev_k = 0

(***************************************************************************)
(* Spec: the whole driver, its register writers called with a few values.  *)
(***************************************************************************)
Next ==
  \/ CallPlain(PlainMethods)
  \/ CallWriteCtrlMeas({OSRS_T_X1}, {OSRS_P_X1}, {NORMAL_MODE})
  \/ CallWriteConfig({T_SB_05}, {FILTER_OFF})
  \/ CallCompensateTemp
  \/ CallCompensatePress
  \/ TakeResult
  \/ read_calib
  \/ read_id
  \/ write_reset
  \/ read_status
  \/ read_ctrl_meas
  \/ write_ctrl_meas
  \/ read_config
  \/ write_config
  \/ read_press
  \/ read_temp
  \/ compensate_temp
  \/ compensate_press
  \/ DeviceSample

Spec == Init /\ [][Next]_vars

(***************************************************************************)
(* SpecRegs: the control and config registers, their writers called with   *)
(* the values at and beyond the ends of each field's range.                *)
(***************************************************************************)
EdgeOsrs == {-1, 0, 7, 8}
EdgeModes == {-1, 0, 3, 4}

NextRegs ==
  \/ CallPlain({"read_ctrl_meas", "read_config", "sleep_mode", "forced_mode", "normal_mode"})
  \/ CallWriteCtrlMeas(EdgeOsrs, EdgeOsrs, EdgeModes)
  \/ CallWriteConfig({-1, 0, 7, 8}, {-1, 0, 7, 8})
  \/ TakeResult
  \/ read_ctrl_meas
  \/ write_ctrl_meas
  \/ read_config
  \/ write_config
  \/ DeviceSample

SpecRegs == Init /\ [][NextRegs]_vars

(***************************************************************************)
(* SpecConfig: the config register alone, over every value of its fields.  *)
(***************************************************************************)
NextConfig ==
  \/ CallPlain({"read_config"})
  \/ CallWriteConfig(-1..8, -1..8)
  \/ TakeResult
  \/ read_config
  \/ write_config

SpecConfig == Init /\ [][NextConfig]_vars

(***************************************************************************)
(* SpecPress: the two compensations alone, called with chosen raw values   *)
(* once the calibration may have been read.                                *)
(***************************************************************************)
PressTempArgs == {519888, 489648, 520208}
PressPressArgs == {415148, 688606, 200890}

NextPress ==
  \/ CallPlain({"read_calib"})
  \/ \E raw_temp \in PressTempArgs : Invoke("compensate_temp", <<raw_temp>>)
  \/ \E raw_press \in PressPressArgs : Invoke("compensate_press", <<raw_press>>)
  \/ TakeResult
  \/ read_calib
  \/ compensate_temp
  \/ compensate_press

SpecPress == Init /\ [][NextPress]_vars


(***************************************************************************)
(* Properties.                                                             *)
(***************************************************************************)
\* the caller's call of fn has ended; it has ended without an exception
Done(fn) == stack = <<>> /\ call.fn = fn
Ok(fn) == Done(fn) /\ exc = ""

HelperMode(fn) ==
  CASE fn = "sleep_mode" -> SLEEP_MODE
    [] fn = "forced_mode" -> FORCED_MODE
    [] fn = "normal_mode" -> NORMAL_MODE

\* C1: write_ctrl_meas(osrs_t, osrs_p, mode) with valid arguments writes the one
\* byte (osrs_t<<5)|(osrs_p<<2)|mode to register 0xF4, and read_ctrl_meas's
\* decoding of that byte is (osrs_t, osrs_p, mode).
C1_CtrlMeasRoundTrip ==
  Ok("write_ctrl_meas") =>
    LET osrs_t == call.args[1]
        osrs_p == call.args[2]
        mode   == call.args[3]
    IN /\ Len(io) = 1
       /\ io[1].data = <<CTRL_MEAS, osrs_t * 32 + osrs_p * 4 + mode>>
       /\ DecodeCtrlMeas(<<io[1].data[2]>>) = <<osrs_t, osrs_p, mode>>

\* C2: once the caller has written (osrs_t, osrs_p, m), every mode helper that
\* ends well has rewritten the control register to (osrs_t, osrs_p, its mode).
C2_ModeHelpersKeepOversampling ==
  \A fn \in {"sleep_mode", "forced_mode", "normal_mode"} :
    (Ok(fn) /\ asked # None) =>
      DecodeCtrlMeas(<<io[3].data[2]>>) = <<Val(asked)[1], Val(asked)[2], HelperMode(fn)>>

\* C3: a write_ctrl_meas or write_config step whose arguments are out of range
\* raises ValueError, issues no transport operation and leaves the device as it
\* was; a step whose arguments are in range (osrs 7, mode 3, t_sb 7, filter 7
\* included) is not refused and issues its transport write.
C3_Step ==
  LET a    == Top.v
      acts == stack' # stack
      refused == /\ exc' = "ValueError"
                 /\ ret' = None
                 /\ stack' = <<>>
                 /\ io' = io
                 /\ (Len(stack) = 1 => io' = <<>>)
                 /\ UNCHANGED dev
      written(reg) == /\ exc' # "ValueError"
                      /\ Len(io') = Len(io) + 1
                      /\ io'[Len(io')].op = "write"
                      /\ io'[Len(io')].data[1] = reg
  IN /\ (At("write_ctrl_meas", 170) /\ acts) =>
          IF a[1] \in 0..7 /\ a[2] \in 0..7 /\ a[3] \in 0..3
          THEN written(CTRL_MEAS) ELSE refused
     /\ (At("write_config", 218) /\ acts) =>
          IF a[1] \in 0..7 /\ a[2] \in 0..7
          THEN written(CONFIG) ELSE refused

C3_ValidationPrecedesIO == [][C3_Step]_vars

C3_Witness ==
  /\ Done("write_ctrl_meas")
  /\ call.args = <<8, 7, 3>>
  /\ exc = "ValueError"
  /\ io = <<>>

\* the call in progress is get_measure_data
InGetMeasureData == stack # <<>> /\ stack[1].fn = "get_measure_data"

\* C4 (as claimed): whenever get_measure_data is at its pressure register read,
\* its temperature compensation has already returned.
C4_TempCompensatedBeforePressRead ==
  (InGetMeasureData /\ Top.fn = "read_press") => stack[1].v[3] # None

\* C4 (amended): get_measure_data reads the raw temperature, then reads the raw
\* pressure, then compensates the temperature, then compensates the pressure:
\* each step finds exactly the results of the steps before it, and a call that
\* ends well has issued pointer write, 3-byte read for 0xFA and then for 0xF7.
C4_ReadsThenCompensations ==
  /\ InGetMeasureData =>
       LET v == stack[1].v
       IN /\ Len(stack) = 2
          /\ Top.fn \in {"read_temp", "read_press", "compensate_temp", "compensate_press"}
          /\ Top.fn = "read_temp" =>
               v[1] = None /\ v[2] = None /\ v[3] = None /\ v[4] = None
          /\ Top.fn = "read_press" =>
               v[1] # None /\ v[2] = None /\ v[3] = None /\ v[4] = None
          /\ Top.fn = "compensate_temp" =>
               v[1] # None /\ v[2] # None /\ v[3] = None /\ v[4] = None
          /\ Top.fn = "compensate_press" =>
               v[1] # None /\ v[2] # None /\ v[3] # None /\ v[4] = None
  /\ Ok("get_measure_data") =>
       /\ Len(io) = 4
       /\ io[1].op = "write" /\ io[1].data = <<TEMP_MSB>>
       /\ io[2].op = "read" /\ io[2].size = 3
       /\ io[3].op = "write" /\ io[3].data = <<PRESS_MSB>>
       /\ io[4].op = "read" /\ io[4].size = 3

C4_Witness ==
  /\ InGetMeasureData
  /\ Top.fn = "compensate_temp"
  /\ stack[1].v[2] # None

\* C5: the raw temperature and the raw pressure that a get_measure_data call
\* that ends well has read are of one and the same sample of the device.
C5_SameSample ==
  Ok("get_measure_data") =>
    \/ io[2].data = DataBytes(NoData)
    \/ io[4].data = DataBytes(NoData)
    \/ \E k \in 1..MaxSample :
         /\ io[2].data = DataBytes(TempAt(k))
         /\ io[4].data = DataBytes(PressAt(k))

\* C6: a compensate_press step taken while t_fine is unset raises (TypeError, the
\* precondition signal of this driver), returns no value and leaves the driver
\* and the device as they were.
C6_Step ==
  (At("compensate_press", 261) /\ t_fine = None /\ stack' # stack) =>
    /\ exc' = "TypeError"
    /\ ret' = None
    /\ stack' = <<>>
    /\ UNCHANGED <<dig, t_fine>>
    /\ UNCHANGED dev

C6_PressBeforeTempRaises == [][C6_Step]_vars

C6_Witness ==
  /\ Done("compensate_press")
  /\ exc = "TypeError"
  /\ t_fine = None
  /\ \A n \in CoefNames : dig[n] # None

\* C7: compensate_temp, compensate_press or get_measure_data reaching its
\* compensation while a coefficient is unset ends in UninitializedCalibration and
\* returns no value.
C7_ExplicitUninitializedCalibration ==
  \A fn \in {"compensate_temp", "compensate_press", "get_measure_data"} :
    (Done(fn) /\ exc # "TransportError" /\ \E n \in CoefNames : dig[n] = None) =>
      (exc = "UninitializedCalibration" /\ ret = None)

\* C8: when begin() has ended without an error, the control register decodes to
\* (x1, x1, Sleep), the config register to (0.5 ms, filter off, 3-wire off), and
\* the twelve coefficients are set, to the device's calibration block.
C8_BeginDefaults ==
  Ok("begin") =>
    /\ <<dev_ctrl \div 32, (dev_ctrl \div 4) % 8, dev_ctrl % 4>> = <<1, 1, 0>>
    /\ <<dev_config \div 32, (dev_config \div 4) % 8, dev_config % 2>> = <<0, 0, 0>>
    /\ \A n \in CoefNames : dig[n] # None
    /\ dev_calib = CalibBytes(<<Val(dig["T1"]), Val(dig["T2"]), Val(dig["T3"]),
                                Val(dig["P1"]), Val(dig["P2"]), Val(dig["P3"]),
                                Val(dig["P4"]), Val(dig["P5"]), Val(dig["P6"]),
                                Val(dig["P7"]), Val(dig["P8"]), Val(dig["P9"])>>)

C8_Witness == Ok("begin") /\ Len(io) = 5 /\ dev_ctrl = 36

\* C9: write_config(t_sb, filter, spi3w_en) with valid arguments writes the one
\* byte (t_sb<<5)|(filter<<2)|spi3w_en to register 0xF5, which then holds it and
\* unpacks to (t_sb, filter, spi3w_en); read_config returns the register unpacked.
C9_ConfigRoundTrip ==
  /\ Ok("write_config") =>
       LET t_sb   == call.args[1]
           filter == call.args[2]
           spi    == IF call.args[3] THEN 1 ELSE 0
           byte   == t_sb * 32 + filter * 4 + spi
       IN /\ Len(io) = 1
          /\ io[1].op = "write"
          /\ io[1].data = <<CONFIG, byte>>
          /\ dev_config = byte
          /\ DecodeConfig(<<dev_config>>) = <<t_sb, filter, spi>>
  /\ Ok("read_config") =>
       ret = Some(<<dev_config \div 32, (dev_config \div 4) % 8, dev_config % 2>>)

C9_Witness == Ok("read_config") /\ ret = Some(<<7, 5, 1>>)

\* C10: a transport operation that failed is the last one its call issued, and
\* the call has ended with the transport's error and without a value.
C10_TransportFailureEndsCall ==
  \A i \in 1..Len(io) :
    ~io[i].ok =>
      /\ i = Len(io)
      /\ stack = <<>>
      /\ exc = "TransportError"
      /\ ret = None

C10_Witness ==
  /\ Done("get_measure_data")
  /\ exc = "TransportError"
  /\ Len(io) = 3
  /\ ~io[3].ok

\* lines 250-252 in plain integers: t_fine of the coefficients c and raw_temp
FineTemp(c, raw_temp) ==
  LET T1 == Val(c["T1"])
      T2 == Val(c["T2"])
      T3 == Val(c["T3"])
      var1 == (((raw_temp \div 8) - T1 * 2) * T2) \div 2048
      var2 == (((((raw_temp \div 16) - T1) * ((raw_temp \div 16) - T1)) \div 4096) * T3) \div 16384
  IN var1 + var2

\* lines 234-235 and 244-245: the 20-bit value of three data bytes
RawOf(rdata) == rdata[1] * 4096 + rdata[2] * 16 + rdata[3] \div 16

\* C11: a compensate_press call whose denominator var1 evaluates to 0 returns
\* the value 0.0 and raises nothing.
C11_DegeneratePressure ==
  ( /\ Done("compensate_press")
    /\ t_fine # None
    /\ \A n \in {"P1", "P2", "P3", "P4", "P5", "P6"} : dig[n] # None
    /\ PressVar1(dig, Val(t_fine)) = BigZero )
  => (exc = "" /\ ret = Some([neg |-> FALSE, man |-> <<>>, sh |-> 0]))

C11_Witness ==
  /\ Ok("compensate_press")
  /\ dig["P1"] = Some(0)
  /\ ret = Some([neg |-> FALSE, man |-> <<>>, sh |-> 0])

\* C12: a compensate_temp call that ends well has stored var1 + var2 of lines
\* 250-251 (floor shifts) as t_fine and returned ((t_fine*5 + 128) >> 8) / 100;
\* with T1 = 27504, T2 = 26435, T3 = -1000 and raw temperature 519888 these are
\* 128422 and 2508 / 100, the double nearest 25.08.
C12_TemperatureVector ==
  Ok("compensate_temp") =>
    LET raw  == call.args[1]
        tf   == FineTemp(dig, raw)
        temp == (tf * 5 + 128) \div 256
    IN /\ t_fine = Some(BigOf(tf))
       /\ ret = Some(PyTrueDiv(BigOf(temp), BigOf(100)))
       /\ ( /\ raw = 519888
            /\ <<dig["T1"], dig["T2"], dig["T3"]>> = <<Some(27504), Some(26435), Some(-1000)>> )
          => /\ tf = 128422
             /\ temp = 2508
             /\ ret = Some([neg |-> FALSE, man |-> <<11796, 17039, 20971, 200>>, sh |-> 48])

C12_Witness ==
  /\ Ok("compensate_temp")
  /\ call.args = <<519888>>
  /\ t_fine = Some(BigOf(128422))

\* C13: when get_measure_data compensates the pressure, t_fine is the fine
\* temperature of the raw temperature this call read, and the pressure the call
\* returns is computed from that fine temperature and the raw pressure it read.
C13_PressureUsesFineOfSameCall ==
  /\ (InGetMeasureData /\ Top.fn = "compensate_press") =>
       /\ stack[1].v[1] = Some(RawOf(io[2].data))
       /\ t_fine = Some(BigOf(FineTemp(dig, RawOf(io[2].data))))
  /\ Ok("get_measure_data") =>
       LET tf == Some(BigOf(FineTemp(dig, RawOf(io[2].data))))
       IN /\ t_fine = tf
          /\ Val(ret)[2] = Val(compensate_press_body(dig, tf, RawOf(io[4].data)).value)

C13_Witness ==
  /\ Ok("get_measure_data")
  /\ io[2].data = DataBytes(TempAt(2))
  /\ t_fine = Some(BigOf(128678))

\* lines 98-109 read backwards: the 24 bytes that decode to the coefficients c
CoefBytes(c) ==
  CalibBytes(<<Val(c["T1"]), Val(c["T2"]), Val(c["T3"]), Val(c["P1"]), Val(c["P2"]),
               Val(c["P3"]), Val(c["P4"]), Val(c["P5"]), Val(c["P6"]), Val(c["P7"]),
               Val(c["P8"]), Val(c["P9"])>>)

\* C14: the transport operations of a begin() call are, in this order, the write
\* of [0xE0, 0xB6], the write of [0x88], the read of 24 bytes, the write of
\* [0xF5, 0x00] and the write of [0xF4, 0x24], all to device 0x76; a begin() that
\* ends well has issued all five.
C14_BeginOrder ==
  call.fn = "begin" =>
    LET ops   == <<"write", "write", "read", "write", "write">>
        sizes == <<2, 1, 24, 2, 2>>
        bytes == <<<<224, 182>>, <<136>>, <<>>, <<245, 0>>, <<244, 36>>>>
    IN /\ Len(io) <= 5
       /\ \A i \in 1..Len(io) :
            /\ io[i].addr = 118
            /\ io[i].op = ops[i]
            /\ io[i].size = sizes[i]
            /\ io[i].op = "write" => io[i].data = bytes[i]
       /\ Ok("begin") => Len(io) = 5

C14_Witness ==
  /\ Ok("begin")
  /\ Len(io) = 5
  /\ io[1].data = <<224, 182>>
  /\ io[3].size = 24

\* C15: every transport read of a call comes right after a successful write, by
\* the same call, of one byte, a register address, to device 0x76; one call is in
\* progress at a time.
C15_ReadAfterPointerWrite ==
  /\ \A i \in 1..Len(io) :
       io[i].op = "read" =>
         /\ i > 1
         /\ io[i].addr = 118
         /\ io[i - 1].op = "write"
         /\ io[i - 1].ok
         /\ io[i - 1].addr = 118
         /\ Len(io[i - 1].data) = 1
         /\ <<io[i - 1].data[1], io[i].size>> \in
              {<<136, 24>>, <<208, 1>>, <<243, 1>>, <<244, 1>>, <<245, 1>>, <<247, 3>>, <<250, 3>>}
  /\ stack # <<>> => (call.fn = stack[1].fn /\ Len(stack) <= 2)

C15_Witness ==
  /\ Ok("read_status")
  /\ Len(io) = 2
  /\ io[1].data = <<243>>
  /\ io[2].op = "read"

\* C16: a step changes t_fine only if it is a compensate_temp that returns, and a
\* compensate_temp that returns has stored var1 + var2 of its raw temperature.
C16_Step ==
  /\ t_fine' # t_fine => (At("compensate_temp", 250) /\ exc' = "")
  /\ (At("compensate_temp", 250) /\ stack' # stack /\ exc' = "") =>
       t_fine' = Some(BigOf(FineTemp(dig, Top.v[1])))

C16_FineTempFrame == [][C16_Step]_vars

C16_Witness ==
  /\ Ok("compensate_temp")
  /\ call.args = <<TempAt(2)>>
  /\ t_fine = Some(BigOf(128678))

\* C17: once the twelve coefficients are set, a step that is not read_calib's
\* read leaves every one of them as it is.
C17_Step ==
  ((\A n \in CoefNames : dig[n] # None) /\ ~At("read_calib", 97)) => dig' = dig

C17_CalibrationImmutable == [][C17_Step]_vars

C17_Witness ==
  /\ Ok("write_reset")
  /\ \A n \in CoefNames : dig[n] # None

\* the quotient of the integers num and var1 truncated toward zero, var1 # 0
TruncQuotient(num, var1) == Big(num.neg # var1.neg, MagDivMod(num.mag, var1.mag)[1])

\* C18: a compensate_press call that returns with var1 # 0 has taken for
\* ((p<<31) - var2) * 3125 / var1 the exact integer quotient truncated toward
\* zero, and 256 times the value it returns is the fixed-point result of lines
\* 270-274 with that quotient; the sample calibration, raw pressure 415148 and
\* fine temperature 128422 give 100653 Pa and a fraction.
C18_ExactIntegerPressure ==
  (Ok("compensate_press") /\ PressVar1(dig, Val(t_fine)) # BigZero) =>
    LET raw  == call.args[1]
        var1 == PressVar1(dig, Val(t_fine))
        var2 == PressVar2(dig, Val(t_fine))
        num  == BigMul(BigSub(BigShl(BigOf(1048576 - raw), 31), var2), BigOf(3125))
        p    == TruncQuotient(num, var1)
        w1   == BigShr(BigMul(BigMul(D(dig, "P9"), BigShr(p, 13)), BigShr(p, 13)), 25)
        w2   == BigShr(BigMul(D(dig, "P8"), p), 19)
        q8   == BigAdd(BigShr(BigAdd(BigAdd(p, w1), w2), 8), BigShl(D(dig, "P7"), 4))
    IN /\ PressQuotient(num, var1) = p
       /\ ret = Some(PyTrueDiv(q8, BigOf(256)))
       /\ (raw = 415148 /\ t_fine = Some(BigOf(128422)) /\ dig["P1"] = Some(36477))
            => BigShr(q8, 8) = BigOf(100653)

\* C19: in every state the twelve coefficients are all unset or all set, to the
\* decoding of one 24-byte burst of the device; a read_calib whose read succeeds
\* sets all twelve from the bytes of that read, and one whose pointer write or
\* read fails leaves them as they were.
C19_AllOrNothing ==
  \/ \A n \in CoefNames : dig[n] = None
  \/ /\ \A n \in CoefNames : dig[n] # None
     /\ CoefBytes(dig) = dev_calib

C19_Step ==
  (stack # <<>> /\ Top.fn = "read_calib" /\ stack' # stack) =>
    IF exc' = "TransportError"
    THEN dig' = dig
    ELSE At("read_calib", 97) =>
           /\ \A n \in CoefNames : dig'[n] # None
           /\ CoefBytes(dig') = io'[Len(io')].data

C19_CalibrationAllOrNothing == []C19_AllOrNothing /\ [][C19_Step]_vars

C19_Witness ==
  /\ Done("read_calib")
  /\ exc = "TransportError"
  /\ Len(io) = 2
  /\ \A n \in CoefNames : dig[n] # None

====
